---- MODULE Spec2Model ----
(***************************************************************************)
(* Model of rpicontrols: the Controller (lifecycle, button registry, edge  *)
(* callback, scheduled-updates thread) and the Button gesture recogniser   *)
(* (Button.update).  Time is counted in clock ticks; every call of         *)
(* Button.update reads a clock value strictly larger than the previous     *)
(* one.  scheduled_update_time = 0 means "no update scheduled", as in the  *)
(* source, so the clock starts at 1.                                       *)
(***************************************************************************)
EXTENDS Integers, Sequences, FiniteSets, TLC

\* ------------------------------------------------------------------ bounds
MaxTime == 8

\* CtlSpec: Button objects constructed, and ticks of the clock.
MaxCreated == 2
CtlTicks == 1

\* HdlSpec and StopSpec: handlers registered at a time, and ticks of the
\* clock.
MaxHandlers == 2
HdlTicks == 2
StopTicks == 4

\* ------------------------------------------------- program constants, types
\* Button.__init__: double_click_timeout = long_press_timeout = 0.5 s; one
\* tick of the model clock is 0.125 s.
default_double_click_timeout == 4
default_long_press_timeout == 4

\* Values a client assigns to the public attribute double_click_timeout.
TimeoutValues == {2, 4}

\* Values a client assigns to the public attribute long_press_timeout.
LongPressTimeoutValues == {1, 4}

\* The GPIO pins of the model; those of CtlSpec.
Pins == {1}
CtlPins == {1, 2}
InputType == {"PRESSED_WHEN_ON", "PRESSED_WHEN_OFF"}

\* The events the client registers handlers for in HdlSpec, and the
\* long_press_timeout it sets in StopSpec.
HdlEvents == {"press", "release"}
StopLongPressTimeout == 1

VARIABLES
    status,         \* Controller._status
    now,            \* the clock read by time.time()
    pin_states,     \* level of each GPIO pin (what driver.input returns)
    configured,     \* pins configured in the driver (RpiGpioDriver._bounce_times)
    created,        \* number of Button objects constructed so far
    btn,            \* the Button objects, by identity
    buttons,        \* Controller._buttons: the registered buttons, in order
    wpc,            \* position of the scheduled-updates thread
    wlist,          \* its local buttons_to_update (what is left of it)
    wake_at,        \* the time its time.sleep() ends
    cond_owner,     \* holder of _scheduled_updates_condition
    notified,       \* the waiting thread has been notified
    emitted,        \* the last call of Button.update: who, when, which events
    obs,            \* observer's history of each button's events
    loop,           \* the asyncio event loop that run() drives
    raised,         \* the last failed call of the client and its exception
    loop_stop,      \* the event loop has been asked to stop
    spc,            \* position of the thread that called stop()
    swait,          \* its argument wait
    sthread,        \* its thread: of the application ("app"), of the event loop
    edge_in,        \* the edge callback that holds _status_lock and has not the
                    \* condition yet: <<>> or <<its pin, the level read>>
    handlers,       \* the event handler lists of each Button object
    futures,        \* the futures of run_coroutine_threadsafe, in order of submission
    logged,         \* exceptions of handlers logged by _call_event_handler
    raising,        \* the call of Button.update that is submitting handlers
    served          \* observer: the last event whose handlers have been submitted

vars == <<status, now, pin_states, configured, created, btn, buttons, wpc, wlist,
          wake_at, cond_owner, notified, emitted, obs, loop, raised, loop_stop, spc,
          swait, sthread, edge_in, handlers, futures, logged, raising, served>>

\* The call of stop() in progress, and the handlers and their futures.
stop_vars == <<loop_stop, spc, swait, sthread>>
handler_vars == <<handlers, futures, logged, raising, served>>

Last(s) == s[Len(s)]

\* ------------------------------------------------------ faulty variants
\* Variants of the operators of Button.update below, each with one slip;
\* the claims' formulas tell each of them from the operator it varies.

\* click_due measuring from the first recorded press instead of the last.
click_due_from_first_press(press_times, current_time, double_click_timeout) ==
    current_time - press_times[1] >= double_click_timeout

\* first_press_recent measuring from the first recorded press instead of the
\* last but one.
first_press_recent_from_first(press_times, current_time, double_click_timeout) ==
    /\ Len(press_times) >= 2
    /\ current_time - press_times[1] < double_click_timeout

\* first_press_recent with <= for <.
first_press_recent_inclusive(press_times, current_time, double_click_timeout) ==
    /\ Len(press_times) >= 2
    /\ current_time - press_times[Len(press_times) - 1] <= double_click_timeout

\* after_double_click without the clear().
after_double_click_kept(times) == times

\* long_press_pending without "if not self._long_pressed".
long_press_pending_always(pressed, long_pressed) == pressed

\* long_press_due measuring from the first recorded press instead of the last.
long_press_due_from_first_press(press_times, current_time, long_press_timeout) ==
    current_time - press_times[1] > long_press_timeout

\* clear_long_pressed without the reset.
clear_long_pressed_never(pressed, long_pressed) == long_pressed

\* is_press without "and not was_pressed".
is_press_any(pressed, was_pressed) == pressed

\* is_release without "and was_pressed".
is_release_any(pressed, was_pressed) == ~pressed

\* click_pending without "if last_release > last_press".
click_pending_unordered(press_times, release_times) ==
    /\ press_times /= <<>>
    /\ release_times /= <<>>

\* _schedule_update without "or self.scheduled_update_time > update_time".
schedule_update_unless_scheduled(scheduled_update_time, update_time) ==
    IF update_time = 0 \/ scheduled_update_time = 0
    THEN update_time
    ELSE scheduled_update_time

\* configure_button without "if pin_id in self._bounce_times: raise".
configure_allowed_always(pin) == TRUE

\* delete_button without "if button not in self._buttons: raise".
delete_allowed_always(id) == TRUE

\* run with "== Controller.Status.RUNNING" for "!= Controller.Status.READY".
run_allowed_unless_running(st) == st /= "running"

\* stop without "if self._status != Controller.Status.RUNNING: raise".
stop_outcome_unchecked(st) == IF st = "stopped" THEN "return" ELSE "stopping"

\* stop without "if self._status == Controller.Status.STOPPED: return".
stop_outcome_raise_when_stopped(st) == IF st /= "running" THEN "raise" ELSE "stopping"

\* _get_button returning the first registered button, whatever its pin.
get_button_first(pin_id) == IF buttons = <<>> THEN <<>> ELSE <<buttons[1]>>

\* stop without its loop "while [...if not handler_future.done()]".
handlers_done_unchecked == TRUE

\* _call_event_handler without its "except BaseException": the exception of
\* a handler ends the event loop.
loop_after_unabsorbed(outcome) == IF outcome = "raised" THEN "returned" ELSE "running"

\* ---------------------------------------------------------------- Button
NewButton(pin, input_type) ==
    [pin_id |-> pin, input_type |-> input_type,
     pressed |-> FALSE, long_pressed |-> FALSE,
     press_times |-> <<>>, release_times |-> <<>>,
     double_click_timeout |-> default_double_click_timeout,
     long_press_timeout |-> default_long_press_timeout,
     scheduled_update_time |-> 0]

\* Button._schedule_update
schedule_update(scheduled_update_time, update_time) ==
    IF update_time = 0 \/ scheduled_update_time = 0 \/ scheduled_update_time > update_time
    THEN update_time
    ELSE scheduled_update_time

\* new_pressed of Button.update
new_pressed(input_type, pin_input) ==
    IF input_type = "PRESSED_WHEN_ON" THEN pin_input ELSE ~pin_input

\* "if not self._pressed: self._long_pressed = False"
clear_long_pressed(pressed, long_pressed) ==
    IF ~pressed THEN FALSE ELSE long_pressed

\* "if self._pressed and not was_pressed:  # PRESS"
is_press(pressed, was_pressed) == pressed /\ ~was_pressed

\* "elif not self._pressed and was_pressed:  # RELEASE"
is_release(pressed, was_pressed) == ~pressed /\ was_pressed

\* "if self._pressed: ... if not self._long_pressed:" the long press is still to come
long_press_pending(pressed, long_pressed) == pressed /\ ~long_pressed

\* "if current_time - last_press_time > self.long_press_timeout"
long_press_due(press_times, current_time, long_press_timeout) ==
    current_time - Last(press_times) > long_press_timeout

\* clicked_twice and first_press_recent
first_press_recent(press_times, current_time, double_click_timeout) ==
    /\ Len(press_times) >= 2
    /\ current_time - press_times[Len(press_times) - 1] < double_click_timeout

\* "if self._press_times and self._release_times: ... if last_release > last_press"
click_pending(press_times, release_times) ==
    /\ press_times /= <<>>
    /\ release_times /= <<>>
    /\ Last(release_times) > Last(press_times)

\* "if current_time - last_press >= self.double_click_timeout"
click_due(press_times, current_time, double_click_timeout) ==
    current_time - Last(press_times) >= double_click_timeout

\* The history after a double click ("Consume press times not to reuse them").
after_double_click(times) == <<>>

\* The history after a click.
after_click(times) == <<>>

\* Button._raise_event: nothing is raised without an event loop.
raise_event(event_name, event_loop) ==
    IF event_loop THEN <<event_name>> ELSE <<>>

\* The events, and the handler lists of a new Button (_press_handlers, ...).
Events == {"press", "release", "long press", "double click", "click"}
NoHandlers == [event \in Events |-> <<>>]

\* The handler list Button.update passes to _raise_event with the event.
handlers_of(button_handlers, event_name) == button_handlers[event_name]

\* The handlers of the client: a function that returns when done, and one
\* that returns an awaitable.
Handlers == {"immediate", "deferred"}
is_awaitable(handler) == handler = "deferred"

\* asyncio.run_coroutine_threadsafe(self._call_event_handler(event_name,
\* handler), event_loop): the future of the coroutine, not started yet.
run_coroutine_threadsafe(id, event_name, handler, current_time) ==
    [button |-> id, event |-> event_name, handler |-> handler,
     time |-> current_time, state |-> "pending"]

\* No call of Button.update is submitting handlers.  Otherwise: the button,
\* the events it has still to submit (the first one is in hand), the index
\* the list iterator of _raise_event is at, the length of
\* _running_event_handlers (the futures of the call are added to it when the
\* call returns), and for the observer the handlers of the event in hand that
\* have been registered since its emission began, and those submitted.
NoRaising == [button |-> 0, events |-> <<>>, index |-> 0, time |-> 0, base |-> 0,
              expected |-> <<>>, got |-> <<>>]

NoServed == [button |-> 0, event |-> "none", time |-> 0, expected |-> <<>>,
             got |-> <<>>]

\* The first call of _raise_event of an update that raises events.
begin_raise(id, events, current_time, button_handlers, base) ==
    [button |-> id, events |-> events, index |-> 1, time |-> current_time,
     base |-> base, expected |-> handlers_of(button_handlers, Head(events)),
     got |-> <<>>]

\* "for handler in handlers" of Button._raise_event, one turn of the list
\* iterator: the handler at its index is submitted, or the list has no such
\* index and the update goes on to its next event, if any.  The result holds
\* the call afterwards, the future submitted and the event completed.
raise_event_next(r, button_handlers) ==
    LET hs == handlers_of(button_handlers, Head(r.events))
        done == [button |-> r.button, event |-> Head(r.events), time |-> r.time,
                 expected |-> r.expected, got |-> r.got]
    IN  IF r.index <= Len(hs)
        THEN [raising |-> [r EXCEPT !.index = @ + 1, !.got = Append(@, hs[r.index])],
              submitted |-> <<run_coroutine_threadsafe(r.button, Head(r.events),
                                                       hs[r.index], r.time)>>,
              served |-> <<>>]
        ELSE IF Tail(r.events) = <<>>
        THEN [raising |-> NoRaising, submitted |-> <<>>, served |-> <<done>>]
        ELSE [raising |-> [r EXCEPT !.events = Tail(@), !.index = 1,
                                    !.expected = handlers_of(button_handlers,
                                                             Head(Tail(r.events))),
                                    !.got = <<>>],
              submitted |-> <<>>, served |-> <<done>>]

\* Button.update(event_loop, pin_input) at time current_time.  event_loop is
\* FALSE for None.  The result holds the button afterwards, the events raised
\* in order, and whether press_times[-1] raised IndexError (the statements
\* before it have then taken effect).
update(b, event_loop, pin_input, current_time) ==
    LET was_pressed == b.pressed
        pressed == new_pressed(b.input_type, pin_input)
        lp0 == clear_long_pressed(pressed, b.long_pressed)
        \* Mark button as updated.
        sut0 == IF b.scheduled_update_time < current_time
                THEN schedule_update(b.scheduled_update_time, 0)
                ELSE b.scheduled_update_time
        press == is_press(pressed, was_pressed)
        release == ~press /\ is_release(pressed, was_pressed)
        pt1 == IF press THEN Append(b.press_times, current_time) ELSE b.press_times
        rt1 == IF release THEN Append(b.release_times, current_time) ELSE b.release_times
        ev1 == IF press THEN raise_event("press", event_loop)
               ELSE IF release THEN raise_event("release", event_loop)
               ELSE <<>>
        index_error == pressed /\ pt1 = <<>>
        \* Maybe raise 'long press' event?
        consider_lp == long_press_pending(pressed, lp0) /\ ~index_error
        lp_now == consider_lp /\ long_press_due(pt1, current_time, b.long_press_timeout)
        lp1 == IF lp_now THEN TRUE ELSE lp0
        ev2 == IF lp_now THEN ev1 \o raise_event("long press", event_loop) ELSE ev1
        sut1 == IF consider_lp /\ ~lp_now
                THEN schedule_update(sut0, Last(pt1) + b.long_press_timeout)
                ELSE sut0
        \* Maybe raise 'double click' event?
        just_released == ~pressed /\ was_pressed
        dc_now == just_released
                  /\ first_press_recent(pt1, current_time, b.double_click_timeout)
        ev3 == IF dc_now THEN ev2 \o raise_event("double click", event_loop) ELSE ev2
        pt2 == IF dc_now THEN after_double_click(pt1) ELSE pt1
        rt2 == IF dc_now THEN after_double_click(rt1) ELSE rt1
        \* Maybe raise 'click' event?
        consider_click == click_pending(pt2, rt2)
        click_now == consider_click
                     /\ click_due(pt2, current_time, b.double_click_timeout)
        ev4 == IF click_now THEN ev3 \o raise_event("click", event_loop) ELSE ev3
        pt3 == IF click_now THEN after_click(pt2) ELSE pt2
        rt3 == IF click_now THEN after_click(rt2) ELSE rt2
        sut2 == IF consider_click /\ ~click_now
                THEN schedule_update(sut1, Last(pt2) + b.double_click_timeout)
                ELSE sut1
    IN  IF index_error
        THEN [button |-> [b EXCEPT !.pressed = pressed, !.long_pressed = lp0,
                                   !.scheduled_update_time = sut0,
                                   !.press_times = pt1, !.release_times = rt1],
              events |-> ev1, index_error |-> TRUE]
        ELSE [button |-> [b EXCEPT !.pressed = pressed, !.long_pressed = lp1,
                                   !.scheduled_update_time = sut2,
                                   !.press_times = pt3, !.release_times = rt3],
              events |-> ev4, index_error |-> FALSE]

\* --------------------------------------------------------------- observer
\* What an observer of the emitted events and of the pressed property records
\* for one button:
\*   n_press, n_release     press and release events so far
\*   press_run              press events since the last release event
\*   lp_count               long press events of the current pressed interval
\*   pressed_since          when the current pressed interval began (0: not pressed)
\*   press_hist             times of the last two presses
\*   last_consumed          a double click has consumed the last press
\*   prev_consumed          when the last press began, a double click had
\*                          already consumed the press before it
\*   last_release           time of the release of the last press (0: none yet)
\*   dc_since_press         double click events since the last press began
\*   clicks_since_press     click events since the last press began
\*   clicks_before          click events between the last two presses
\*   dc_at_last_release     the update of the last release raised double click
\*   clicks_since_release   click events in or after the update of the last release
\*   init_pressed           make_button's initial sampling found the button pressed
\*   deleted_at             the clock when delete_button removed it (0: registered)
NewObs ==
    [n_press |-> 0, n_release |-> 0, press_run |-> 0, lp_count |-> 0,
     pressed_since |-> 0, press_hist |-> <<>>, last_consumed |-> FALSE,
     prev_consumed |-> FALSE, last_release |-> 0, dc_since_press |-> 0,
     clicks_since_press |-> 0, clicks_before |-> 0, dc_at_last_release |-> FALSE,
     clicks_since_release |-> 0, init_pressed |-> FALSE, deleted_at |-> 0]

Count(events, name) == Cardinality({i \in DOMAIN events : events[i] = name})

Has(events, name) == \E i \in DOMAIN events : events[i] = name

LastTwo(s) == IF Len(s) <= 2 THEN s ELSE SubSeq(s, Len(s) - 1, Len(s))

Observe(o, old, res, current_time, initial) ==
    LET new == res.button
        to_pressed == new.pressed /\ ~old.pressed
        to_released == ~new.pressed /\ old.pressed
        n_dc == Count(res.events, "double click")
        n_click == Count(res.events, "click")
    IN  [n_press |-> o.n_press + Count(res.events, "press"),
         n_release |-> o.n_release + Count(res.events, "release"),
         press_run |-> IF Has(res.events, "release") THEN 0
                       ELSE o.press_run + Count(res.events, "press"),
         lp_count |-> (IF to_pressed THEN 0 ELSE o.lp_count)
                      + Count(res.events, "long press"),
         pressed_since |-> IF to_pressed THEN current_time
                           ELSE IF new.pressed THEN o.pressed_since ELSE 0,
         press_hist |-> IF to_pressed
                        THEN LastTwo(Append(o.press_hist, current_time))
                        ELSE o.press_hist,
         last_consumed |-> IF n_dc > 0 THEN TRUE
                           ELSE IF to_pressed THEN FALSE ELSE o.last_consumed,
         prev_consumed |-> IF to_pressed THEN o.last_consumed ELSE o.prev_consumed,
         last_release |-> IF to_pressed THEN 0
                          ELSE IF to_released THEN current_time ELSE o.last_release,
         dc_since_press |-> (IF to_pressed THEN 0 ELSE o.dc_since_press) + n_dc,
         clicks_since_press |-> (IF to_pressed THEN 0 ELSE o.clicks_since_press) + n_click,
         clicks_before |-> IF to_pressed THEN o.clicks_since_press ELSE o.clicks_before,
         dc_at_last_release |-> IF to_released THEN n_dc > 0 ELSE o.dc_at_last_release,
         clicks_since_release |-> (IF to_released THEN 0 ELSE o.clicks_since_release)
                                  + n_click,
         init_pressed |-> IF initial THEN new.pressed ELSE o.init_pressed,
         deleted_at |-> o.deleted_at]

\* No call of Button.update yet.
NoUpdate == [button |-> 0, src |-> "none", time |-> 0, events |-> <<>>,
             index_error |-> FALSE]

\* The client's last call returned normally.
NoError == [call |-> "none", arg |-> 0, raised |-> "none"]

\* -------------------------------------------------------------- Controller
Init ==
    /\ status = "ready"
    /\ now = 1
    /\ pin_states \in [Pins -> BOOLEAN]
    /\ configured = {}
    /\ created = 0
    /\ btn = <<>>
    /\ buttons = <<>>
    /\ wpc = "not started"
    /\ wlist = <<>>
    /\ wake_at = 0
    /\ cond_owner = "none"
    /\ notified = FALSE
    /\ emitted = NoUpdate
    /\ obs = <<>>
    /\ loop = "idle"
    /\ raised = NoError
    /\ loop_stop = FALSE
    /\ spc = "idle"
    /\ swait = FALSE
    /\ sthread = "app"
    /\ edge_in = <<>>
    /\ handlers = <<>>
    /\ futures = <<>>
    /\ logged = 0
    /\ raising = NoRaising
    /\ served = NoServed

\* Controller._get_button: the registered buttons of a pin.
get_button(pin_id) == SelectSeq(buttons, LAMBDA id : btn[id].pin_id = pin_id)

\* Condition.notify(): wakes the thread waiting in Condition.wait(), if any.
notify == notified' = (notified \/ wpc = "waiting")

\* _raise_event waiting for the handlers submitted before to be done.
submit_after_handlers(turn) ==
    /\ \A i \in DOMAIN futures : futures[i].state = "done"
    /\ futures' = futures \o turn.submitted
    /\ raising' = turn.raising
    /\ served' = IF turn.served = <<>> THEN served ELSE turn.served[1]

\* The futures submitted and the event completed by one turn of _raise_event.
submit(turn) ==
    /\ futures' = futures \o turn.submitted
    /\ raising' = turn.raising
    /\ served' = IF turn.served = <<>> THEN served ELSE turn.served[1]

\* Controller._update_button past its test of the status: Button.update at a
\* fresh clock value, up to the first turn of the list iterator of its first
\* _raise_event.  Button.update changes the button under the condition, which
\* its caller holds; the handler lists it reads are under no lock.
do_update(id, pin_input, raise_events, src) ==
    /\ now < MaxTime
    /\ \E res \in {update(btn[id], raise_events, pin_input, now + 1)} :
           /\ now' = now + 1
           /\ btn' = [btn EXCEPT ![id] = res.button]
           /\ emitted' = [button |-> id, src |-> src, time |-> now + 1,
                          events |-> res.events,
                          index_error |-> res.index_error]
           /\ obs' = [obs EXCEPT ![id] = Observe(obs[id], btn[id], res, now + 1, FALSE)]
           /\ IF res.events = <<>>
              THEN UNCHANGED <<futures, raising, served>>
              ELSE submit(raise_event_next(begin_raise(id, res.events, now + 1,
                                                       handlers[id], Len(futures)),
                                           handlers[id]))

\* Controller._update_button on an existing button, the status not changing
\* meanwhile: nothing unless RUNNING.
update_button(id, pin_input, raise_events, src) ==
    IF status /= "running"
    THEN UNCHANGED <<now, btn, emitted, obs, futures, raising, served>>
    ELSE do_update(id, pin_input, raise_events, src)

\* The clock advances while nothing else happens.  Only Button.update and the
\* scheduled-updates thread read the clock, and only time differences count,
\* so the clock is followed once the controller is RUNNING with a button.
Tick ==
    /\ UNCHANGED <<loop, raised>>
    /\ UNCHANGED stop_vars
    /\ UNCHANGED edge_in
    /\ UNCHANGED handler_vars
    /\ status = "running"
    /\ buttons /= <<>>
    /\ now < MaxTime
    /\ now' = now + 1
    /\ UNCHANGED <<status, pin_states, configured, created, btn, buttons, wpc, wlist,
                   wake_at, cond_owner, notified, emitted, obs>>

\* The hardware level of a pin changes (the level before RUNNING is the
\* initial one; the level is not read once the controller is stopping).
PinChange(pin) ==
    /\ UNCHANGED <<loop, raised>>
    /\ UNCHANGED stop_vars
    /\ UNCHANGED edge_in
    /\ UNCHANGED handler_vars
    /\ status = "running"
    /\ pin_states' = [pin_states EXCEPT ![pin] = ~pin_states[pin]]
    /\ UNCHANGED <<status, now, configured, created, btn, buttons, wpc, wlist,
                   wake_at, cond_owner, notified, emitted, obs>>

\* RpiGpioDriver.configure_button accepts the pin: "if pin_id in
\* self._bounce_times: raise" does not apply.
configure_allowed(pin) == pin \notin configured

\* Controller.make_button: construct, configure the pin, sample the level
\* without raising events, register.
make_button(pin, input_type) ==
    /\ configure_allowed(pin)
    /\ raised' = NoError
    /\ handlers' = Append(handlers, NoHandlers)
    /\ UNCHANGED <<loop, futures, logged, raising, served>>
    /\ UNCHANGED stop_vars
    /\ UNCHANGED edge_in
    /\ LET fresh == NewButton(pin, input_type)
       IN  IF status /= "running"
           THEN /\ btn' = Append(btn, fresh)
                /\ obs' = Append(obs, NewObs)
                /\ UNCHANGED <<now, emitted>>
           ELSE /\ now < MaxTime
                /\ LET res == update(fresh, FALSE, pin_states[pin], now + 1)
                   IN  /\ now' = now + 1
                       /\ btn' = Append(btn, res.button)
                       /\ emitted' = [button |-> created + 1, src |-> "make_button",
                                      time |-> now + 1, events |-> res.events,
                                      index_error |-> res.index_error]
                       /\ obs' = Append(obs, Observe(NewObs, fresh, res, now + 1, TRUE))
    /\ created' = created + 1
    /\ configured' = configured \cup {pin}
    /\ buttons' = Append(buttons, created + 1)
    /\ UNCHANGED <<status, pin_states, wpc, wlist, wake_at, cond_owner, notified>>

\* The client assigns the public attributes double_click_timeout and
\* long_press_timeout of the button it has just made, before any edge or
\* scheduled update of a button (as the tests do).
set_timeouts(id, dct, lpt) ==
    /\ UNCHANGED <<loop, raised>>
    /\ UNCHANGED stop_vars
    /\ UNCHANGED edge_in
    /\ UNCHANGED handler_vars
    /\ id \in 1..created
    /\ id = created
    /\ emitted.src \in {"none", "make_button"}
    /\ btn[id].press_times = <<>> /\ btn[id].release_times = <<>>
    /\ ~btn[id].pressed
    /\ <<dct, lpt>> /= <<btn[id].double_click_timeout, btn[id].long_press_timeout>>
    /\ btn' = [btn EXCEPT ![id].double_click_timeout = dct, ![id].long_press_timeout = lpt]
    /\ UNCHANGED <<status, now, pin_states, configured, created, buttons, wpc, wlist,
                   wake_at, cond_owner, notified, emitted, obs>>

\* Controller.make_button on a pin the driver refuses: configure_button
\* raises before the button is sampled or registered, and the Button object
\* just constructed is dropped.
make_button_fails(pin, input_type) ==
    /\ UNCHANGED stop_vars
    /\ UNCHANGED edge_in
    /\ UNCHANGED handler_vars
    /\ ~configure_allowed(pin)
    /\ raised' = [call |-> "make_button", arg |-> pin, raised |-> "Exception"]
    /\ UNCHANGED <<status, now, pin_states, configured, created, btn, buttons, wpc,
                   wlist, wake_at, cond_owner, notified, emitted, obs, loop>>

\* "if button not in self._buttons: raise ValueError" does not apply.
delete_allowed(id) == \E i \in DOMAIN buttons : buttons[i] = id

\* Controller.delete_button of a registered button: unconfigures its pin and
\* removes it; takes no lock.
delete_button(id) ==
    /\ UNCHANGED stop_vars
    /\ UNCHANGED edge_in
    /\ UNCHANGED handler_vars
    /\ delete_allowed(id)
    /\ configured' = configured \ {btn[id].pin_id}
    /\ buttons' = SelectSeq(buttons, LAMBDA x : x /= id)
    /\ obs' = [obs EXCEPT ![id].deleted_at = now]
    /\ raised' = NoError
    /\ UNCHANGED <<status, now, pin_states, created, btn, wpc, wlist, wake_at,
                   cond_owner, notified, emitted, loop>>

\* Controller.delete_button of a button that is not registered.
delete_button_fails(id) ==
    /\ UNCHANGED stop_vars
    /\ UNCHANGED edge_in
    /\ UNCHANGED handler_vars
    /\ ~delete_allowed(id)
    /\ raised' = [call |-> "delete_button", arg |-> id, raised |-> "ValueError"]
    /\ UNCHANGED <<status, now, pin_states, configured, created, btn, buttons, wpc,
                   wlist, wake_at, cond_owner, notified, emitted, obs, loop>>

\* _status_lock is free: no edge callback is in progress (run and stop hold it
\* for one step).
status_lock_free == cond_owner /= "edge" /\ edge_in = <<>>

\* The thread of the event loop is not inside a call of stop.
loop_thread_free == ~(sthread = "loop" /\ spc \notin {"idle", "returned"})

\* "if self._status != Controller.Status.READY: raise" does not apply.
run_allowed(st) == st = "ready"

\* Controller.run under _status_lock: starts the scheduled-updates thread,
\* registers the edge callback, RUNNING.  The thread then gets to
\* run_forever() at once (next_loop is "running") or later ("idle").
run_begin(next_loop) ==
    /\ status_lock_free
    /\ run_allowed(status)
    /\ status' = "running"
    /\ wpc' = "loop"
    /\ loop' = next_loop
    /\ raised' = NoError
    /\ UNCHANGED <<now, pin_states, configured, created, btn, buttons, wlist, wake_at,
                   cond_owner, notified, emitted, obs>>
    /\ UNCHANGED stop_vars
    /\ UNCHANGED edge_in
    /\ UNCHANGED handler_vars

\* run_forever() on a loop that drops the stop it was asked for before it
\* started.
run_forever_forgets_stop ==
    /\ status /= "ready"
    /\ loop_thread_free
    /\ loop = "idle"
    /\ loop' = "running"
    /\ loop_stop' = FALSE
    /\ UNCHANGED <<status, now, pin_states, configured, created, btn, buttons, wpc,
                   wlist, wake_at, cond_owner, notified, emitted, obs, raised, spc,
                   swait, sthread, edge_in>>
    /\ UNCHANGED handler_vars

\* "self._event_loop.run_forever()": the event loop starts.
run_forever ==
    /\ status /= "ready"
    /\ loop_thread_free
    /\ loop = "idle"
    /\ loop' = "running"
    /\ UNCHANGED <<status, now, pin_states, configured, created, btn, buttons, wpc,
                   wlist, wake_at, cond_owner, notified, emitted, obs, raised>>
    /\ UNCHANGED stop_vars
    /\ UNCHANGED edge_in
    /\ UNCHANGED handler_vars

\* Controller.run up to run_forever(), its thread not preempted on the way.
run == run_begin("running")

\* Controller.run on a controller that is not READY.
run_fails ==
    /\ UNCHANGED stop_vars
    /\ UNCHANGED edge_in
    /\ UNCHANGED handler_vars
    /\ status_lock_free
    /\ ~run_allowed(status)
    /\ raised' = [call |-> "run", arg |-> 0, raised |-> "Exception"]
    /\ UNCHANGED <<status, now, pin_states, configured, created, btn, buttons, wpc,
                   wlist, wake_at, cond_owner, notified, emitted, obs, loop>>

\* The conditions Controller.stop tests under _status_lock, in their order.
stop_outcome(st) ==
    IF st = "stopped" THEN "return"
    ELSE IF st /= "running" THEN "raise"
    ELSE "stopping"

\* Controller.stop(wait) on a running controller, under _status_lock:
\* STOPPING.  The call is made in the thread given; the handler of the future
\* caller, if not 0, is the one that makes it.
stop_on(thread, wait, caller) ==
    /\ status_lock_free
    /\ stop_outcome(status) = "stopping"
    /\ status' = "stopping"
    /\ spc' = "notify"
    /\ swait' = wait
    /\ sthread' = thread
    /\ UNCHANGED edge_in
    /\ raised' = NoError
    /\ futures' = IF caller = 0 THEN futures
                  ELSE [futures EXCEPT ![caller].state = "running"]
    /\ UNCHANGED <<now, pin_states, configured, created, btn, buttons, wpc, wlist,
                   wake_at, cond_owner, notified, emitted, obs, loop, loop_stop>>
    /\ UNCHANGED <<handlers, logged, raising, served>>

\* Controller.stop(wait) called by a thread of the application.
stop_begin(wait) == stop_on("app", wait, 0)

\* Controller._signal_handler, installed by stop_on_signals: Python runs it
\* in the main thread, which is the thread of the event loop when run() was
\* called there; it calls stop(wait=False).
signal_handler == stop_on("loop", FALSE, 0)

\* A handler that calls stop(wait): the event loop starts its coroutine, the
\* first one not yet started, and the handler calls stop in the thread of the
\* loop.
handler_calls_stop(i, wait) ==
    /\ loop = "running"
    /\ futures[i].state = "pending"
    /\ \A j \in 1..(i - 1) : futures[j].state /= "pending"
    /\ stop_on("loop", wait, i)

\* "with self._scheduled_updates_condition: ...notify()"
stop_notify ==
    /\ spc = "notify"
    /\ cond_owner = "none"
    /\ notify
    /\ spc' = "wait handlers"
    /\ UNCHANGED <<status, now, pin_states, configured, created, btn, buttons, wpc,
                   wlist, wake_at, cond_owner, emitted, obs, loop, raised, loop_stop,
                   swait, sthread, edge_in>>
    /\ UNCHANGED handler_vars

\* Controller._running_event_handlers: the futures of the updates that have
\* returned.
running_event_handlers ==
    SubSeq(futures, 1, IF raising.button = 0 THEN Len(futures) ELSE raising.base)

\* The loop of stop with "not handler_future.running()" for
\* "not handler_future.done()": it waits for the handlers to start only.
handlers_done_started ==
    \A i \in DOMAIN running_event_handlers :
        running_event_handlers[i].state /= "pending"

\* No future of _running_event_handlers is left that is not done().
handlers_done ==
    \A i \in DOMAIN running_event_handlers : running_event_handlers[i].state = "done"

\* "while [...handler_future... if not handler_future.done()]: time.sleep(0.01)"
\* comes to its end.
stop_wait_handlers ==
    /\ spc = "wait handlers"
    /\ handlers_done
    /\ spc' = "stop loop"
    /\ UNCHANGED <<status, now, pin_states, configured, created, btn, buttons, wpc,
                   wlist, wake_at, cond_owner, notified, emitted, obs, loop, raised,
                   loop_stop, swait, sthread, edge_in>>
    /\ UNCHANGED handler_vars

\* "self._event_loop.call_soon_threadsafe(self._event_loop.stop)"; stop(False)
\* returns.
stop_loop ==
    /\ spc = "stop loop"
    /\ loop_stop' = TRUE
    /\ spc' = IF swait THEN "wait stopped" ELSE "returned"
    /\ UNCHANGED <<status, now, pin_states, configured, created, btn, buttons, wpc,
                   wlist, wake_at, cond_owner, notified, emitted, obs, loop, raised,
                   swait, sthread, edge_in>>
    /\ UNCHANGED handler_vars

\* "while wait and self._status != Controller.Status.STOPPED: time.sleep(0.01)"
\* comes to its end; stop(True) returns.
stop_wait_stopped ==
    /\ spc = "wait stopped"
    /\ status = "stopped"
    /\ spc' = "returned"
    /\ UNCHANGED <<status, now, pin_states, configured, created, btn, buttons, wpc,
                   wlist, wake_at, cond_owner, notified, emitted, obs, loop, raised,
                   loop_stop, swait, sthread, edge_in>>
    /\ UNCHANGED handler_vars

\* Controller.stop past its change of the status.
stop_goes_on ==
    \/ stop_notify
    \/ stop_wait_handlers
    \/ stop_loop
    \/ stop_wait_stopped

\* Controller.stop on a running controller.
stop ==
    \/ \E wait \in BOOLEAN : stop_begin(wait)
    \/ stop_notify
    \/ stop_wait_handlers
    \/ stop_loop
    \/ stop_wait_stopped

\* Controller.stop on a stopped controller returns at once.
stop_returns ==
    /\ UNCHANGED stop_vars
    /\ UNCHANGED edge_in
    /\ UNCHANGED handler_vars
    /\ status_lock_free
    /\ stop_outcome(status) = "return"
    /\ raised' = [call |-> "stop", arg |-> 0, raised |-> "none"]
    /\ UNCHANGED <<status, now, pin_states, configured, created, btn, buttons, wpc,
                   wlist, wake_at, cond_owner, notified, emitted, obs, loop>>

\* Controller.stop on a controller that is neither stopped nor running.
stop_fails ==
    /\ UNCHANGED stop_vars
    /\ UNCHANGED edge_in
    /\ UNCHANGED handler_vars
    /\ status_lock_free
    /\ stop_outcome(status) = "raise"
    /\ raised' = [call |-> "stop", arg |-> 0, raised |-> "Exception"]
    /\ UNCHANGED <<status, now, pin_states, configured, created, btn, buttons, wpc,
                   wlist, wake_at, cond_owner, notified, emitted, obs, loop>>

\* The event loop runs the stop it has been asked for, run_forever() returns,
\* and Controller.run sets STOPPED, whatever the status was.
run_returns ==
    /\ status_lock_free
    /\ loop_thread_free
    /\ loop = "running"
    /\ loop_stop
    /\ loop' = "returned"
    /\ status' = "stopped"
    /\ UNCHANGED <<now, pin_states, configured, created, btn, buttons, wpc, wlist,
                   wake_at, cond_owner, notified, emitted, obs, raised>>
    /\ UNCHANGED stop_vars
    /\ UNCHANGED edge_in
    /\ UNCHANGED handler_vars

\* list.remove(x): the list without the first x.
RECURSIVE list_remove(_, _)
list_remove(list, x) ==
    IF list = <<>> THEN <<>>
    ELSE IF Head(list) = x THEN Tail(list)
    ELSE <<Head(list)>> \o list_remove(Tail(list), x)

\* The handlers registered on a button.
registered_handlers(id) ==
    handlers[id]["press"] \o handlers[id]["release"] \o handlers[id]["long press"]
    \o handlers[id]["double click"] \o handlers[id]["click"]

\* Button.add_on_press, add_on_release, ...: appends to the list of the event,
\* under no lock.
add_on(id, event_name, func) ==
    /\ id \in 1..created
    /\ Len(registered_handlers(id)) < MaxHandlers
    /\ handlers' = [handlers EXCEPT ![id][event_name] = Append(@, func)]
    /\ UNCHANGED <<status, now, pin_states, configured, created, btn, buttons, wpc,
                   wlist, wake_at, cond_owner, notified, emitted, obs, loop, raised,
                   futures, logged, raising, served>>
    /\ UNCHANGED stop_vars
    /\ UNCHANGED edge_in

\* Button.remove_on_press, remove_on_release, ... of a handler of the list,
\* under no lock.
remove_on(id, event_name, func) ==
    /\ id \in 1..created
    /\ \E i \in DOMAIN handlers[id][event_name] : handlers[id][event_name][i] = func
    /\ handlers' = [handlers EXCEPT ![id][event_name] = list_remove(@, func)]
    /\ raising' = IF /\ raising.button = id
                     /\ Head(raising.events) = event_name
                  THEN [raising EXCEPT !.expected = list_remove(@, func)]
                  ELSE raising
    /\ UNCHANGED <<status, now, pin_states, configured, created, btn, buttons, wpc,
                   wlist, wake_at, cond_owner, notified, emitted, obs, loop, raised,
                   futures, logged, served>>
    /\ UNCHANGED stop_vars
    /\ UNCHANGED edge_in

\* ------------------------------------------------------------- event loop
\* Button._call_event_handler, "except BaseException as e:
\* get_logger().exception(e)": the event loop after a handler has come to its
\* end with the outcome.
loop_after(outcome) == "running"

\* The event loop starts the coroutine of a future, "handler(self)": the
\* coroutines start in the order of their submission.  A handler that returns
\* when done runs to its end, or to its exception, before the thread of the
\* loop does anything else; a handler that returns an awaitable is left
\* suspended in "await awaitable_result".
call_event_handler(i, outcome) ==
    /\ loop = "running"
    /\ loop_thread_free
    /\ futures[i].state = "pending"
    /\ \A j \in 1..(i - 1) : futures[j].state /= "pending"
    /\ IF is_awaitable(futures[i].handler)
       THEN /\ outcome = "returned"
            /\ futures' = [futures EXCEPT ![i].state = "running"]
            /\ UNCHANGED <<loop, logged>>
       ELSE /\ futures' = [futures EXCEPT ![i].state = "done"]
            /\ loop' = loop_after(outcome)
            /\ logged' = IF outcome = "raised" THEN logged + 1 ELSE logged
    /\ UNCHANGED <<status, now, pin_states, configured, created, btn, buttons, wpc,
                   wlist, wake_at, cond_owner, notified, emitted, obs, raised,
                   handlers, raising, served>>
    /\ UNCHANGED stop_vars
    /\ UNCHANGED edge_in

\* The awaitable of a handler completes or raises, in the thread of the event
\* loop: the future is done.
awaitable_ends(i, outcome) ==
    /\ loop = "running"
    /\ loop_thread_free
    /\ futures[i].state = "running"
    /\ futures' = [futures EXCEPT ![i].state = "done"]
    /\ loop' = loop_after(outcome)
    /\ logged' = IF outcome = "raised" THEN logged + 1 ELSE logged
    /\ UNCHANGED <<status, now, pin_states, configured, created, btn, buttons, wpc,
                   wlist, wake_at, cond_owner, notified, emitted, obs, raised,
                   handlers, raising, served>>
    /\ UNCHANGED stop_vars
    /\ UNCHANGED edge_in

\* Controller._on_gpio_edge, called by the driver with the level it reads
\* (RpiGpioDriver._on_edge); holds _status_lock and the condition throughout,
\* and keeps them ("edge") while its update has handlers left to submit.
edge_update(pin, level) ==
    /\ UNCHANGED <<loop, raised, handlers, logged>>
    /\ UNCHANGED stop_vars
    /\ status /= "ready"
    /\ cond_owner = "none"
    /\ LET found == get_button(pin)
       IN  /\ Len(found) = 1
           /\ update_button(found[1], level, TRUE, "edge")
           /\ IF raising'.button /= 0
              THEN cond_owner' = "edge" /\ UNCHANGED notified
              ELSE /\ UNCHANGED cond_owner
                   /\ IF btn'[found[1]].scheduled_update_time /= 0
                         /\ ~emitted'.index_error
                      THEN notify
                      ELSE UNCHANGED notified
    /\ UNCHANGED <<status, pin_states, configured, created, buttons, wpc, wlist,
                   wake_at>>

\* Controller._on_gpio_edge taking _status_lock and the condition at once,
\* which it can whenever both are free.
on_gpio_edge(pin) ==
    /\ edge_in = <<>>
    /\ edge_update(pin, pin_states[pin])
    /\ UNCHANGED edge_in

\* Controller._on_gpio_edge up to "with self._scheduled_updates_condition":
\* the callback has _status_lock and a button for its pin, and asks for the
\* condition, which another thread may hold.
on_gpio_edge_enter(pin) ==
    /\ status /= "ready"
    /\ status_lock_free
    /\ Len(get_button(pin)) = 1
    /\ edge_in' = <<pin, pin_states[pin]>>
    /\ UNCHANGED <<status, now, pin_states, configured, created, btn, buttons, wpc,
                   wlist, wake_at, cond_owner, notified, emitted, obs, loop, raised>>
    /\ UNCHANGED stop_vars
    /\ UNCHANGED handler_vars

\* Controller._on_gpio_edge from there on, once the condition is free.
on_gpio_edge_update ==
    /\ edge_in /= <<>>
    /\ edge_update(edge_in[1], edge_in[2])
    /\ edge_in' = <<>>

\* Controller._on_gpio_edge for a pin that no registered button has:
\* "Ignoring edge for GPIO pin", nothing else.
on_gpio_edge_ignored(pin) ==
    /\ status /= "ready"
    /\ status_lock_free
    /\ get_button(pin) = <<>>
    /\ UNCHANGED vars

\* The update of an edge callback takes the next turn of _raise_event; after
\* the last one _update_button returns, and the callback notifies the
\* condition if the button has a scheduled update and releases both locks.
on_gpio_edge_raising ==
    /\ cond_owner = "edge"
    /\ submit(raise_event_next(raising, handlers[raising.button]))
    /\ IF raising'.button /= 0
       THEN UNCHANGED <<cond_owner, notified>>
       ELSE /\ cond_owner' = "none"
            /\ IF btn[raising.button].scheduled_update_time /= 0
               THEN notify
               ELSE UNCHANGED notified
    /\ UNCHANGED <<status, now, pin_states, configured, created, btn, buttons, wpc,
                   wlist, wake_at, emitted, obs, loop, raised, handlers, logged>>
    /\ UNCHANGED stop_vars
    /\ UNCHANGED edge_in

\* ------------------------------------------------ scheduled-updates thread
\* Controller._scheduled_updates_thread_main, one step per position.

\* "while self._status in (READY, RUNNING)"
worker_loop ==
    /\ UNCHANGED <<loop, raised>>
    /\ UNCHANGED stop_vars
    /\ UNCHANGED edge_in
    /\ UNCHANGED handler_vars
    /\ wpc = "loop"
    /\ wpc' = IF status \in {"ready", "running"} THEN "scan" ELSE "done"
    /\ UNCHANGED <<status, now, pin_states, configured, created, btn, buttons, wlist,
                   wake_at, cond_owner, notified, emitted, obs>>

\* buttons_to_update of the thread at time current_time.
buttons_to_update(current_time) ==
    SelectSeq(buttons, LAMBDA id : /\ btn[id].scheduled_update_time /= 0
                                   /\ btn[id].scheduled_update_time < current_time)

\* "with self._scheduled_updates_condition:" and the selection of the buttons
\* whose scheduled time has passed.
worker_scan ==
    /\ UNCHANGED <<loop, raised>>
    /\ UNCHANGED stop_vars
    /\ UNCHANGED edge_in
    /\ UNCHANGED handler_vars
    /\ wpc = "scan"
    /\ cond_owner = "none"
    /\ cond_owner' = "worker"
    /\ wlist' = buttons_to_update(now)
    /\ wpc' = "update"
    /\ UNCHANGED <<status, now, pin_states, configured, created, btn, buttons, wake_at,
                   notified, emitted, obs>>

\* The same step with _update_button taking _status_lock for its test of the
\* status, while the thread holds the condition.
worker_update_under_status_lock ==
    /\ UNCHANGED <<loop, raised>>
    /\ UNCHANGED stop_vars
    /\ UNCHANGED edge_in
    /\ UNCHANGED handler_vars
    /\ wpc = "update"
    /\ status_lock_free
    /\ IF wlist = <<>>
       THEN /\ cond_owner' = "none"
            /\ wpc' = "remaining"
            /\ UNCHANGED wlist
       ELSE IF status /= "running"
            THEN wlist' = Tail(wlist) /\ UNCHANGED <<wpc, cond_owner>>
            ELSE wpc' = "updating" /\ UNCHANGED <<wlist, cond_owner>>
    /\ UNCHANGED <<status, now, pin_states, configured, created, btn, buttons, wake_at,
                   notified, emitted, obs>>

\* "for button in buttons_to_update: self._update_button(button)", up to the
\* test of the status in _update_button; the condition is released after the
\* last button.  The thread holds the condition, not _status_lock.
worker_update ==
    /\ UNCHANGED <<loop, raised>>
    /\ UNCHANGED stop_vars
    /\ UNCHANGED edge_in
    /\ UNCHANGED handler_vars
    /\ wpc = "update"
    /\ IF wlist = <<>>
       THEN /\ cond_owner' = "none"
            /\ wpc' = "remaining"
            /\ UNCHANGED wlist
       ELSE IF status /= "running"
            THEN wlist' = Tail(wlist) /\ UNCHANGED <<wpc, cond_owner>>
            ELSE wpc' = "updating" /\ UNCHANGED <<wlist, cond_owner>>
    /\ UNCHANGED <<status, now, pin_states, configured, created, btn, buttons, wake_at,
                   notified, emitted, obs>>

\* _update_button past its test: the level read from the driver and
\* Button.update, whatever the status has become.  An exception in
\* Button.update ends the thread.
worker_do_update ==
    /\ UNCHANGED <<loop, raised, handlers, logged>>
    /\ UNCHANGED stop_vars
    /\ UNCHANGED edge_in
    /\ wpc = "updating"
    /\ do_update(Head(wlist), pin_states[btn[Head(wlist)].pin_id], TRUE, "scheduled")
    /\ IF emitted'.index_error
       THEN wpc' = "dead" /\ cond_owner' = "none" /\ wlist' = <<>>
       ELSE IF raising'.button /= 0
       THEN wpc' = "raising" /\ UNCHANGED <<wlist, cond_owner>>
       ELSE wpc' = "update" /\ wlist' = Tail(wlist) /\ UNCHANGED cond_owner
    /\ UNCHANGED <<status, pin_states, configured, created, buttons, wake_at, notified>>

\* The update of the thread takes the next turn of _raise_event; after the
\* last one _update_button returns and the thread goes on to its next button.
worker_raising ==
    /\ wpc = "raising"
    /\ submit(raise_event_next(raising, handlers[raising.button]))
    /\ IF raising'.button /= 0
       THEN UNCHANGED <<wpc, wlist>>
       ELSE wpc' = "update" /\ wlist' = Tail(wlist)
    /\ UNCHANGED <<status, now, pin_states, configured, created, btn, buttons,
                   wake_at, cond_owner, notified, emitted, obs, loop, raised, handlers,
                   logged>>
    /\ UNCHANGED stop_vars
    /\ UNCHANGED edge_in

\* remaining_buttons_to_update, read without the condition.
remaining_buttons_to_update ==
    SelectSeq(buttons, LAMBDA id : btn[id].scheduled_update_time /= 0)

\* min(b.scheduled_update_time for b in remaining_buttons_to_update)
next_update_time ==
    LET times == {btn[remaining_buttons_to_update[i]].scheduled_update_time :
                    i \in DOMAIN remaining_buttons_to_update}
    IN  CHOOSE t \in times : \A u \in times : t <= u

\* "Sleep until next update or wait for the next scheduled update": decides
\* between time.sleep(sleep_time), looping at once, and Condition.wait().
worker_remaining ==
    /\ UNCHANGED <<loop, raised>>
    /\ UNCHANGED stop_vars
    /\ UNCHANGED edge_in
    /\ UNCHANGED handler_vars
    /\ wpc = "remaining"
    /\ IF remaining_buttons_to_update /= <<>>
       THEN IF next_update_time - now > 0
            THEN wpc' = "sleep" /\ wake_at' = next_update_time
            ELSE wpc' = "loop" /\ UNCHANGED wake_at
       ELSE wpc' = "wait" /\ UNCHANGED wake_at
    /\ UNCHANGED <<status, now, pin_states, configured, created, btn, buttons, wlist,
                   cond_owner, notified, emitted, obs>>

\* time.sleep(sleep_time) returns once the time has come.
worker_sleep ==
    /\ UNCHANGED <<loop, raised>>
    /\ UNCHANGED stop_vars
    /\ UNCHANGED edge_in
    /\ UNCHANGED handler_vars
    /\ wpc = "sleep"
    /\ now >= wake_at
    /\ wpc' = "loop"
    /\ UNCHANGED <<status, now, pin_states, configured, created, btn, buttons, wlist,
                   wake_at, cond_owner, notified, emitted, obs>>

\* "with self._scheduled_updates_condition: ...wait()": takes the condition
\* and releases it to wait.
worker_wait ==
    /\ UNCHANGED <<loop, raised>>
    /\ UNCHANGED stop_vars
    /\ UNCHANGED edge_in
    /\ UNCHANGED handler_vars
    /\ wpc = "wait"
    /\ cond_owner = "none"
    /\ wpc' = "waiting"
    /\ notified' = FALSE
    /\ UNCHANGED <<status, now, pin_states, configured, created, btn, buttons, wlist,
                   wake_at, cond_owner, emitted, obs>>

\* Condition.wait() returns after a notify, with the condition re-acquired
\* and released at the end of the with block.
worker_wake ==
    /\ UNCHANGED <<loop, raised>>
    /\ UNCHANGED stop_vars
    /\ UNCHANGED edge_in
    /\ UNCHANGED handler_vars
    /\ wpc = "waiting"
    /\ notified
    /\ cond_owner = "none"
    /\ wpc' = "loop"
    /\ notified' = FALSE
    /\ UNCHANGED <<status, now, pin_states, configured, created, btn, buttons, wlist,
                   wake_at, cond_owner, emitted, obs>>

scheduled_updates_thread_main ==
    \/ worker_loop
    \/ worker_scan
    \/ worker_update
    \/ worker_do_update
    \/ worker_remaining
    \/ worker_sleep
    \/ worker_wait
    \/ worker_wake

\* ---------------------------------------------------------- specification
\* One controller with one button: the client makes its button once, before
\* or after run.  The thread that calls stop is followed up to STOPPING: from
\* there on no edge updates a button and the scheduled-updates thread ends
\* its loop, and what stop does next (notify, waiting for the handlers,
\* stopping the event loop) is followed in CtlSpec and StopSpec.
Next ==
    \/ Tick
    \/ \E pin \in Pins : PinChange(pin)
    \/ \E pin \in Pins, input_type \in InputType :
          created = 0 /\ make_button(pin, input_type)
    \/ \E dct \in TimeoutValues, lpt \in LongPressTimeoutValues : set_timeouts(created, dct, lpt)
    \/ \E id \in 1..created : delete_button(id)
    \/ run
    \/ stop_begin(TRUE)
    \/ \E pin \in Pins : on_gpio_edge(pin)
    \/ on_gpio_edge_raising
    \/ scheduled_updates_thread_main

Spec == Init /\ [][Next]_vars

\* The scheduled-updates thread has a button to update as soon as it gets to
\* run: a registered button's scheduled time has passed and the thread is
\* neither waiting for a notification nor asleep.
worker_is_late ==
    /\ status = "running"
    /\ \E i \in DOMAIN buttons :
          /\ btn[buttons[i]].scheduled_update_time /= 0
          /\ btn[buttons[i]].scheduled_update_time < now
    /\ \/ wpc \in {"loop", "scan", "update", "updating", "raising", "remaining"}
       \/ wpc = "sleep" /\ now >= wake_at
       \/ wpc = "waiting" /\ notified

\* The clock advances, but not past a runnable scheduled-updates thread that
\* has a button to update: the thread gets to run within one tick.
TickFair == ~worker_is_late /\ Tick

NextFair ==
    \/ TickFair
    \/ \E pin \in Pins : PinChange(pin)
    \/ \E pin \in Pins, input_type \in InputType :
          created = 0 /\ make_button(pin, input_type)
    \/ \E dct \in TimeoutValues, lpt \in LongPressTimeoutValues : set_timeouts(created, dct, lpt)
    \/ \E id \in 1..created : delete_button(id)
    \/ run
    \/ stop_begin(TRUE)
    \/ \E pin \in Pins : on_gpio_edge(pin)
    \/ on_gpio_edge_raising
    \/ scheduled_updates_thread_main

\* The threads are scheduled fairly and the clock keeps advancing.
FairSpec ==
    Init /\ [][NextFair]_vars
         /\ WF_vars(scheduled_updates_thread_main) /\ WF_vars(TickFair)

\* One controller and the whole of its client interface: buttons made and
\* deleted on two pins, every call in every status, the calls that fail
\* included, and the edge callbacks.  The pins keep their levels, and the
\* scheduled-updates thread, once started, does not get to run: it reads and
\* writes none of status, _buttons, the driver's configuration and the event
\* loop, and no call of the client waits for it.  The clock is followed for
\* its last CtlTicks ticks.
CtlInit ==
    /\ status = "ready"
    /\ now = MaxTime - CtlTicks
    /\ pin_states \in [CtlPins -> BOOLEAN]
    /\ configured = {}
    /\ created = 0
    /\ btn = <<>>
    /\ buttons = <<>>
    /\ wpc = "not started"
    /\ wlist = <<>>
    /\ wake_at = 0
    /\ cond_owner = "none"
    /\ notified = FALSE
    /\ emitted = NoUpdate
    /\ obs = <<>>
    /\ loop = "idle"
    /\ raised = NoError
    /\ loop_stop = FALSE
    /\ spc = "idle"
    /\ swait = FALSE
    /\ sthread = "app"
    /\ edge_in = <<>>
    /\ handlers = <<>>
    /\ futures = <<>>
    /\ logged = 0
    /\ raising = NoRaising
    /\ served = NoServed

CtlNext ==
    \/ \E pin \in CtlPins, input_type \in InputType :
          created < MaxCreated /\ make_button(pin, input_type)
    \/ \E pin \in CtlPins, input_type \in InputType : make_button_fails(pin, input_type)
    \/ \E id \in 1..created : delete_button(id)
    \/ \E id \in 1..created : delete_button_fails(id)
    \/ run
    \/ run_fails
    \/ stop
    \/ stop_returns
    \/ stop_fails
    \/ run_returns
    \/ \E pin \in CtlPins : on_gpio_edge(pin)
    \/ \E pin \in CtlPins : on_gpio_edge_ignored(pin)

CtlSpec == CtlInit /\ [][CtlNext]_vars

\* One controller, one button and its handlers: the client makes the button,
\* registers handlers on it before its first edge (as the tests do), removes
\* them at any time, and calls run; run() may get to run_forever() after
\* other threads have gone on.  The pin starts low.
\* The clock is followed for its last HdlTicks ticks, which the updates of
\* the edge callbacks take: the scheduled-updates thread has no update due
\* and does not get to run.
HdlInit ==
    /\ status = "ready"
    /\ now = MaxTime - HdlTicks
    /\ pin_states = [pin \in Pins |-> FALSE]
    /\ configured = {}
    /\ created = 0
    /\ btn = <<>>
    /\ buttons = <<>>
    /\ wpc = "not started"
    /\ wlist = <<>>
    /\ wake_at = 0
    /\ cond_owner = "none"
    /\ notified = FALSE
    /\ emitted = NoUpdate
    /\ obs = <<>>
    /\ loop = "idle"
    /\ raised = NoError
    /\ loop_stop = FALSE
    /\ spc = "idle"
    /\ swait = FALSE
    /\ sthread = "app"
    /\ edge_in = <<>>
    /\ handlers = <<>>
    /\ futures = <<>>
    /\ logged = 0
    /\ raising = NoRaising
    /\ served = NoServed

HdlNext ==
    \/ \E pin \in Pins : PinChange(pin)
    \/ \E pin \in Pins : created = 0 /\ make_button(pin, "PRESSED_WHEN_ON")
    \/ \E event_name \in HdlEvents, func \in Handlers :
          emitted.src \in {"none", "make_button"} /\ add_on(created, event_name, func)
    \/ \E event_name \in HdlEvents, func \in Handlers : remove_on(created, event_name, func)
    \/ run_begin("idle")
    \/ run_forever
    \/ \E pin \in Pins : on_gpio_edge(pin)
    \/ on_gpio_edge_raising
    \/ \E i \in DOMAIN futures, outcome \in {"returned", "raised"} :
          call_event_handler(i, outcome)
    \/ \E i \in DOMAIN futures, outcome \in {"returned", "raised"} :
          awaitable_ends(i, outcome)

HdlSpec == HdlInit /\ [][HdlNext]_vars

\* The handlers a client can have set up on its button for StopSpec: none or
\* one that returns an awaitable for press, which the edge callbacks raise,
\* and none or one that returns when done for long press, which the
\* scheduled-updates thread raises.
StopHandlers ==
    {[NoHandlers EXCEPT !["press"] = on_press, !["long press"] = on_long_press] :
        on_press \in {<<>>, <<"deferred">>},
        on_long_press \in {<<>>, <<"immediate">>}}

\* One controller that is run and stopped, with the whole of stop.  The client
\* has made its button on a low pin, set its long_press_timeout and registered
\* its handlers before it calls run.  The clock is followed for its last
\* StopTicks ticks.
StopInit ==
    /\ status = "ready"
    /\ now = MaxTime - StopTicks
    /\ pin_states = [pin \in Pins |-> FALSE]
    /\ configured = Pins
    /\ created = 1
    /\ btn = <<[NewButton(1, "PRESSED_WHEN_ON") EXCEPT
                    !.long_press_timeout = StopLongPressTimeout]>>
    /\ buttons = <<1>>
    /\ wpc = "not started"
    /\ wlist = <<>>
    /\ wake_at = 0
    /\ cond_owner = "none"
    /\ notified = FALSE
    /\ emitted = NoUpdate
    /\ obs = <<NewObs>>
    /\ loop = "idle"
    /\ raised = NoError
    /\ loop_stop = FALSE
    /\ spc = "idle"
    /\ swait = FALSE
    /\ sthread = "app"
    /\ edge_in = <<>>
    /\ handlers \in {<<button_handlers>> : button_handlers \in StopHandlers}
    /\ futures = <<>>
    /\ logged = 0
    /\ raising = NoRaising
    /\ served = NoServed

StopNext ==
    \/ Tick
    \/ \E pin \in Pins : PinChange(pin)
    \/ run_begin("idle")
    \/ run_forever
    \/ stop
    \/ run_returns
    \/ \E pin \in Pins : on_gpio_edge(pin)
    \/ on_gpio_edge_raising
    \/ scheduled_updates_thread_main
    \/ worker_raising
    \/ \E i \in DOMAIN futures, outcome \in {"returned", "raised"} :
          call_event_handler(i, outcome)
    \/ \E i \in DOMAIN futures, outcome \in {"returned", "raised"} :
          awaitable_ends(i, outcome)

StopSpec == StopInit /\ [][StopNext]_vars

\* The threads are scheduled fairly: the thread that has called stop, the
\* scheduled-updates thread, an edge callback that is submitting handlers,
\* the thread of run() and its event loop, which starts the coroutines
\* submitted to it.  Nothing is assumed of the handlers: an awaitable may
\* never complete.
StopFairSpec ==
    StopInit /\ [][StopNext]_vars
        /\ WF_vars(stop_goes_on)
        /\ WF_vars(scheduled_updates_thread_main \/ worker_raising)
        /\ WF_vars(on_gpio_edge_raising)
        /\ WF_vars(run_forever)
        /\ WF_vars(run_returns)
        /\ WF_vars(\E i \in DOMAIN futures, outcome \in {"returned", "raised"} :
                      call_event_handler(i, outcome))

\* The same, with handlers that all terminate.
StopLiveSpec ==
    StopFairSpec
        /\ WF_vars(\E i \in DOMAIN futures, outcome \in {"returned", "raised"} :
                      awaitable_ends(i, outcome))

\* One controller whose run() is called in the main thread and that is
\* stopped from the thread of its event loop: by the signal handler of
\* stop_on_signals, which calls stop(wait=False), or by one of its handlers.
\* Set up as in StopSpec.
SigNext ==
    \/ Tick
    \/ \E pin \in Pins : PinChange(pin)
    \/ run_begin("idle")
    \/ run_forever
    \/ signal_handler
    \/ \E i \in DOMAIN futures, wait \in BOOLEAN : handler_calls_stop(i, wait)
    \/ stop_notify
    \/ stop_wait_handlers
    \/ stop_loop
    \/ run_returns
    \/ \E pin \in Pins : on_gpio_edge(pin)
    \/ on_gpio_edge_raising
    \/ scheduled_updates_thread_main
    \/ worker_raising
    \/ \E i \in DOMAIN futures, outcome \in {"returned", "raised"} :
          call_event_handler(i, outcome)
    \/ \E i \in DOMAIN futures, outcome \in {"returned", "raised"} :
          awaitable_ends(i, outcome)

SigSpec == StopInit /\ [][SigNext]_vars

\* Every thread is scheduled fairly and the handlers all terminate, as in
\* StopLiveSpec.
SigLiveSpec ==
    StopInit /\ [][SigNext]_vars
        /\ WF_vars(stop_notify \/ stop_wait_handlers \/ stop_loop)
        /\ WF_vars(scheduled_updates_thread_main \/ worker_raising)
        /\ WF_vars(on_gpio_edge_raising)
        /\ WF_vars(run_forever)
        /\ WF_vars(run_returns)
        /\ WF_vars(\E i \in DOMAIN futures, outcome \in {"returned", "raised"} :
                      call_event_handler(i, outcome))
        /\ WF_vars(\E i \in DOMAIN futures, outcome \in {"returned", "raised"} :
                      awaitable_ends(i, outcome))

\* One controller, run and stopped by threads of the application, while
\* edges arrive: as StopSpec, with the edge callback taking _status_lock and
\* the condition in two steps.
LockNext ==
    \/ Tick
    \/ \E pin \in Pins : PinChange(pin)
    \/ run_begin("idle")
    \/ run_forever
    \/ stop
    \/ run_returns
    \/ \E pin \in Pins : on_gpio_edge_enter(pin)
    \/ on_gpio_edge_update
    \/ on_gpio_edge_raising
    \/ scheduled_updates_thread_main
    \/ worker_raising
    \/ \E i \in DOMAIN futures, outcome \in {"returned", "raised"} :
          call_event_handler(i, outcome)
    \/ \E i \in DOMAIN futures, outcome \in {"returned", "raised"} :
          awaitable_ends(i, outcome)

LockSpec == StopInit /\ [][LockNext]_vars

\* ------------------------------------------------------------------ claims
Registered(id) == \E i \in DOMAIN buttons : buttons[i] = id

\* The last update was an update of button id that raised the event.
Emitted(id, name) == emitted.button = id /\ Has(emitted.events, name)

\* Deadlines late enough cannot be followed up within the clock's bound.
LastDeadline == MaxTime - 2

\* C1: while the controller stays RUNNING, every deadline a button update
\* leaves in scheduled_update_time is eventually followed by an update of that
\* button at a later time (by the scheduled-updates thread, or by a further
\* edge if one arrives).
C1_DeadlineHonoured ==
    \A d \in 1..LastDeadline :
        (/\ status = "running"
         /\ created = 1 /\ Registered(1)
         /\ btn[1].scheduled_update_time = d)
        ~> (\/ status /= "running"
            \/ ~Registered(1)
            \/ (emitted.button = 1 /\ emitted.time > d))

\* C2: a click is emitted only by an update whose time is at least the time
\* of the button's last press plus double_click_timeout.
C2_ClickNotEarly ==
    \A id \in 1..created :
        Emitted(id, "click") =>
            /\ obs[id].press_hist /= <<>>
            /\ emitted.time - Last(obs[id].press_hist) >= btn[id].double_click_timeout

\* A click raised by a scheduled update.
C2_Witness ==
    /\ created = 1
    /\ Emitted(1, "click") /\ emitted.src = "scheduled"
    /\ obs[1].n_press = 1 /\ obs[1].n_release = 1

\* The last two presses of the button began less than double_click_timeout
\* apart, and the second one has been released less than double_click_timeout
\* after the first one began.
QuickPair(id) ==
    /\ Len(obs[id].press_hist) = 2
    /\ obs[id].press_hist[2] - obs[id].press_hist[1] < btn[id].double_click_timeout
    /\ obs[id].last_release /= 0
    /\ obs[id].last_release - obs[id].press_hist[1] < btn[id].double_click_timeout

\* Exactly one double click and no click have been emitted for the last two
\* presses.
OneDoubleClickNoClick(id) ==
    /\ obs[id].dc_since_press = 1
    /\ obs[id].clicks_since_press = 0
    /\ obs[id].clicks_before = 0

\* C3 as stated: every quick pair of presses yields exactly one double click
\* and no click, whatever preceded the pair.
C3_AnyPair ==
    \A id \in 1..created : QuickPair(id) => OneDoubleClickNoClick(id)

\* C3: a quick pair of presses whose first press has not been consumed by an
\* earlier double click yields exactly one double click and no click.
C3_DoubleClick ==
    \A id \in 1..created :
        QuickPair(id) /\ ~obs[id].prev_consumed => OneDoubleClickNoClick(id)

\* A double click, and a scheduled update of the button after it.
C3_Witness ==
    /\ created = 1
    /\ QuickPair(1) /\ ~obs[1].prev_consumed
    /\ obs[1].dc_since_press = 1
    /\ emitted.src = "scheduled" /\ emitted.button = 1
    /\ emitted.time > obs[1].last_release

\* The last two presses began less than double_click_timeout apart and the
\* second one has been released.
SecondPressReleased(id) ==
    /\ Len(obs[id].press_hist) = 2
    /\ obs[id].press_hist[2] - obs[id].press_hist[1] < btn[id].double_click_timeout
    /\ obs[id].last_release /= 0

C5_NoClickAfterDoubleClick ==
    \A id \in 1..created :
        obs[id].dc_at_last_release => obs[id].clicks_since_release = 0

\* A scheduled update after a double click, its window over.
C5_Witness ==
    /\ created = 1
    /\ obs[1].dc_at_last_release
    /\ emitted.src = "scheduled" /\ emitted.button = 1
    /\ emitted.time - obs[1].press_hist[2] >= btn[1].double_click_timeout

\* C6: at most one long press event per contiguous pressed interval.
C6_OneLongPress ==
    \A id \in 1..created : obs[id].lp_count <= 1

\* An edge update of a button that is pressed and has raised its long press.
C6_Witness ==
    /\ created = 1
    /\ obs[1].lp_count = 1 /\ btn[1].pressed
    /\ emitted.src = "edge" /\ emitted.button = 1 /\ emitted.events = <<>>

\* C7: long press is raised, and long_pressed is true, only when the button
\* has been pressed without interruption for at least long_press_timeout.
C7_LongPressHeld ==
    \A id \in 1..created :
        /\ Emitted(id, "long press") =>
              /\ obs[id].pressed_since /= 0
              /\ emitted.time - obs[id].pressed_since >= btn[id].long_press_timeout
        /\ btn[id].long_pressed =>
              /\ obs[id].pressed_since /= 0
              /\ now - obs[id].pressed_since >= btn[id].long_press_timeout

\* A press released before long_press_timeout, its scheduled update run after
\* the timeout, the button pressed again meanwhile.
C7_Witness ==
    /\ created = 1
    /\ Len(obs[1].press_hist) = 2 /\ btn[1].pressed
    /\ emitted.src = "scheduled" /\ emitted.button = 1
    /\ emitted.time - obs[1].press_hist[1] > btn[1].long_press_timeout
    /\ obs[1].lp_count = 0

\* C8: long_pressed implies pressed.
C8_LongPressedImpliesPressed ==
    \A id \in 1..created : btn[id].long_pressed => btn[id].pressed

\* A button released after its long press.
C8_Witness ==
    /\ created = 1
    /\ obs[1].lp_count = 1 /\ ~btn[1].pressed /\ Emitted(1, "release")

\* C9: between two consecutive press events there is a release event.
C9_ReleaseBetweenPresses ==
    \A id \in 1..created : obs[id].press_run <= 1

\* A second press event, after repeated edges of the same direction.
C9_Witness ==
    /\ created = 1
    /\ obs[1].n_press = 2 /\ Emitted(1, "press")

\* C10 as stated: release events never outnumber press events.
C10_ReleasesWithinPresses ==
    \A id \in 1..created : obs[id].n_release <= obs[id].n_press

\* C10: release events never outnumber press events, except by one for a
\* button that make_button sampled as pressed.
C10_ReleasesWithinPressesPlusInitial ==
    \A id \in 1..created :
        obs[id].n_release <= obs[id].n_press + (IF obs[id].init_pressed THEN 1 ELSE 0)

\* The button sampled as pressed has been released, pressed and released.
C10_Witness ==
    /\ created = 1
    /\ obs[1].init_pressed /\ obs[1].n_release = 2 /\ obs[1].n_press = 1

\* C11 as stated: a button that make_button sampled as pressed raises nothing
\* at its creation, and no click is ever raised for it as long as it has
\* raised no press event.
C11_NoClickForInitialPress ==
    \A id \in 1..created :
        obs[id].init_pressed /\ obs[id].n_press = 0 =>
            /\ obs[id].clicks_since_press = 0
            /\ (emitted.button = id /\ emitted.src = "make_button"
                   => emitted.events = <<>>)

\* The button has raised a long press during its last press and has been
\* released since, with no press after that release and no double click.
ReleasedAfterLongPress(id) ==
    /\ obs[id].lp_count = 1
    /\ obs[id].last_release /= 0
    /\ ~obs[id].dc_at_last_release

\* C12 as stated: the click of a release that follows a long press is raised
\* no earlier than double_click_timeout after the release.
C12_ClickAfterReleaseTimeout ==
    \A id \in 1..created :
        Emitted(id, "click") /\ ReleasedAfterLongPress(id) =>
            emitted.time >= obs[id].last_release + btn[id].double_click_timeout

\* C12: the click of a release that follows a long press is raised no earlier
\* than the release and no earlier than double_click_timeout after the press;
\* no further timeout runs from the release.
C12_ClickAfterPressTimeout ==
    \A id \in 1..created :
        Emitted(id, "click") /\ ReleasedAfterLongPress(id) =>
            /\ emitted.time >= obs[id].last_release
            /\ emitted.time >= Last(obs[id].press_hist) + btn[id].double_click_timeout

\* long_press_timeout above double_click_timeout: press, long press, and the
\* click raised at the time of the release.
C12_Witness ==
    /\ created = 1
    /\ btn[1].long_press_timeout > btn[1].double_click_timeout
    /\ Emitted(1, "click") /\ ReleasedAfterLongPress(1)
    /\ obs[1].n_press = 1
    /\ emitted.time = obs[1].last_release

\* C13: while the controller stays RUNNING, a release that follows a long
\* press, with no second press, is followed by a click; the click comes in
\* the update of the release when that update is at least
\* double_click_timeout after the press.
C13_LoneReleaseYieldsClick ==
    /\ [](\A id \in 1..created :
             /\ ReleasedAfterLongPress(id)
             /\ obs[id].last_release - Last(obs[id].press_hist)
                   >= btn[id].double_click_timeout
             => obs[id].clicks_since_release = 1)
    /\ (/\ status = "running"
        /\ created = 1 /\ Registered(1)
        /\ ReleasedAfterLongPress(1)
        /\ Last(obs[1].press_hist) + btn[1].double_click_timeout <= LastDeadline)
       ~> (\/ status /= "running"
           \/ ~Registered(1)
           \/ btn[1].pressed
           \/ obs[1].clicks_since_release >= 1)

\* C14 as stated: when make_button returns, whatever the status, the new
\* button's pressed tells whether its pin is at the active level, and the
\* sampling has raised no event.
C14_InitialSample ==
    [][created' = created + 1 =>
          /\ btn'[created'].pressed
                = new_pressed(btn'[created'].input_type,
                              pin_states[btn'[created'].pin_id])
          /\ obs'[created'].n_press = 0 /\ obs'[created'].n_release = 0
          /\ (emitted'.button = created' => emitted'.events = <<>>)]_vars

\* The pins of the registered buttons.
RegisteredPins == {btn[buttons[i]].pin_id : i \in DOMAIN buttons}

\* The program's state but for the clock and the observer.
ctl_state == <<status, pin_states, configured, created, btn, buttons, wpc, wlist,
               wake_at, cond_owner, notified, loop, loop_stop, spc, swait, sthread,
               edge_in, handlers,
               futures, logged, raising, served>>

\* A call of the client has just failed (or, for stop, returned at once).
Fails(call) == raised' /= raised /\ raised'.call = call

\* C15: any two distinct registered buttons have different pins, so that
\* _get_button finds at most one button for a pin; and make_button fails
\* exactly on a pin that has a registered button, leaving everything as it was.
C15_DistinctPins ==
    /\ [](/\ \A i, j \in DOMAIN buttons :
                i /= j => btn[buttons[i]].pin_id /= btn[buttons[j]].pin_id
          /\ \A pin \in CtlPins : Len(get_button(pin)) <= 1)
    /\ [][/\ Fails("make_button") =>
                /\ raised'.arg \in RegisteredPins
                /\ UNCHANGED ctl_state
          /\ Len(buttons') > Len(buttons) =>
                /\ btn'[Last(buttons')].pin_id \notin RegisteredPins
                /\ buttons' = Append(buttons, created')]_vars

\* Two buttons registered, and a make_button that has just failed.
C15_Witness ==
    /\ Len(buttons) = 2
    /\ raised.call = "make_button" /\ raised.raised = "Exception"

\* C16: the driver has configured exactly the pins of the registered
\* buttons; delete_button fails exactly on a button that is not registered,
\* leaving everything as it was; otherwise it removes that button alone and
\* unconfigures its pin.
C16_DeleteButton ==
    /\ [](configured = RegisteredPins)
    /\ [][/\ Fails("delete_button") =>
                /\ ~Registered(raised'.arg)
                /\ raised'.raised = "ValueError"
                /\ UNCHANGED ctl_state
          /\ Len(buttons') < Len(buttons) =>
                \E id \in 1..created :
                    /\ Registered(id)
                    /\ buttons' = SelectSeq(buttons, LAMBDA x : x /= id)
                    /\ Len(buttons') = Len(buttons) - 1
                    /\ configured' = configured \ {btn[id].pin_id}
          /\ configured' /= configured => buttons' /= buttons]_vars

\* A button deleted twice while another one stays registered.
C16_Witness ==
    /\ Len(buttons) = 1
    /\ raised.call = "delete_button" /\ raised.raised = "ValueError"

\* C17 as stated: once delete_button has removed a button, no update raises
\* an event for it.
C17_NoEventAfterDelete ==
    \A id \in 1..created :
        obs[id].deleted_at /= 0 =>
            ~(/\ emitted.button = id
              /\ emitted.time > obs[id].deleted_at
              /\ emitted.events /= <<>>)

\* The steps of the lifecycle.
Lifecycle == {<<"ready", "running">>, <<"running", "stopping">>,
              <<"stopping", "stopped">>}

\* C18: the status changes only along READY, RUNNING, STOPPING, STOPPED, one
\* step at a time, and never once STOPPED.
C18_Lifecycle ==
    [][status' /= status => <<status, status'>> \in Lifecycle]_vars

\* STOPPED, with an edge callback and a refused call on the way.
C18_Witness ==
    /\ status = "stopped"
    /\ emitted.src = "edge"
    /\ raised.raised = "Exception"

\* C19: run on a controller that is not READY raises and changes nothing; the
\* status becomes RUNNING from READY only, and a STOPPED controller stays
\* STOPPED.
C19_RunNotReady ==
    [][/\ Fails("run") =>
             /\ status /= "ready"
             /\ raised'.raised = "Exception"
             /\ UNCHANGED ctl_state
       /\ status' = "running" /\ status /= "running" => status = "ready"
       /\ wpc' /= wpc /\ wpc = "not started" => status = "ready"
       /\ status = "stopped" => status' = "stopped"]_vars

\* run refused on a stopped controller.
C19_Witness ==
    /\ status = "stopped"
    /\ raised.call = "run" /\ raised.raised = "Exception"

\* C20: stop on a STOPPED controller returns and changes nothing; stop on a
\* READY or STOPPING controller raises and changes nothing; the status becomes
\* STOPPING from RUNNING only.
C20_Stop ==
    [][/\ Fails("stop") =>
             /\ UNCHANGED ctl_state
             /\ IF status = "stopped" THEN raised'.raised = "none"
                ELSE /\ status \in {"ready", "stopping"}
                     /\ raised'.raised = "Exception"
       /\ status' = "stopping" /\ status /= "stopping" => status = "running"
       /\ spc' = "notify" /\ spc /= "notify" => status = "running"]_vars

\* stop has returned at once on a stopped controller.
C20_Witness ==
    /\ status = "stopped"
    /\ raised.call = "stop" /\ raised.raised = "none"

\* Every future submitted so far is done: its handler has returned or raised.
all_handlers_complete == \A i \in DOMAIN futures : futures[i].state = "done"

\* C21: the status is STOPPED only once every handler submitted has come to
\* its end, by returning or by raising, and stop(wait=True) has returned only
\* once the status is STOPPED, whatever the edge callbacks and the
\* scheduled-updates thread were submitting when stop was called.
C21_StoppedAfterHandlers ==
    /\ status = "stopped" => all_handlers_complete
    /\ spc = "returned" /\ swait => status = "stopped"

\* stop(True) has returned on a controller whose scheduled-updates thread has
\* submitted a handler of long press, and a handler has raised.
C21_Witness ==
    /\ spc = "returned" /\ swait
    /\ status = "stopped"
    /\ \E i \in DOMAIN futures : futures[i].event = "long press"
    /\ logged > 0

\* C22: no event is emitted and no handler is submitted while the status is
\* STOPPING or STOPPED, whatever the edge callbacks and the
\* scheduled-updates thread were doing when stop was called.
C22_NoEventOnceStopping ==
    [][(\/ emitted' /= emitted /\ emitted'.events /= <<>>
        \/ Len(futures') > Len(futures))
       => status' = "running"]_vars

\* The update of the scheduled-updates thread is due at the clock's bound and
\* is not followed.
ClockEnded == now = MaxTime /\ wpc = "updating"

\* C23: stop(wait=False) returns without waiting for the handlers in flight:
\* once called it returns, whether or not the handlers come to their end.
C23_NonWaitingStopReturns ==
    (spc = "notify" /\ ~swait) ~> (spc = "returned" \/ ClockEnded)

\* C23 as amended: stop(wait=False) has returned only once every handler
\* submitted has come to its end; it does not wait for STOPPED.
C23_NonWaitingStopWaitsForHandlers ==
    spc = "returned" /\ ~swait => all_handlers_complete

\* stop(False) has returned after the handlers it waited for, and the status
\* is still STOPPING.
C23_Witness ==
    /\ spc = "returned" /\ ~swait
    /\ status = "stopping"
    /\ futures /= <<>>

\* C24: once stop has set STOPPING, and provided every handler terminates,
\* the status becomes STOPPED and run() returns, also when stop is called
\* before run() has got to run_forever().
C24_StopLeadsToStopped ==
    spc = "notify" ~> ((status = "stopped" /\ loop = "returned") \/ ClockEnded)

\* stop has asked the event loop to stop before run() has started it.
C24_Witness ==
    /\ status = "stopping"
    /\ loop = "idle"
    /\ loop_stop

\* C25: an exception raised by a handler is absorbed: the event loop goes on,
\* the button, the controller and the other futures are as they were, so that
\* the other handlers of the event and those of later events are still
\* started.
C25_ExceptionAbsorbed ==
    [][logged' > logged =>
          /\ loop' = "running"
          /\ btn' = btn /\ buttons' = buttons /\ status' = status
          /\ handlers' = handlers /\ raising' = raising
          /\ Len(futures') = Len(futures)
          /\ \A i \in DOMAIN futures :
                futures[i].state = "done" \/ futures'[i].state /= "done"
                \/ \A j \in DOMAIN futures : j /= i => futures'[j] = futures[j]]_vars

\* The handler of press has raised, and so has the handler of the release
\* that came after it.
C25_Witness ==
    /\ Len(futures) = 2
    /\ futures[1].event = "press" /\ futures[2].event = "release"
    /\ futures[1].time < futures[2].time
    /\ all_handlers_complete
    /\ logged = 2

\* C26: every handler registered for an event of a button while the event is
\* emitted is submitted for it, once, with the button, in the order of
\* registration, and no other handler is.
C26_RegisteredHandlersInvoked ==
    /\ \A func \in Handlers : Count(served.expected, func) <= Count(served.got, func)
    /\ \A i \in DOMAIN futures :
          futures[i].button \in 1..created /\ futures[i].event \in HdlEvents

\* The handlers of the events that the update of an edge callback raises
\* can be submitted, as do_update submits them.
EdgeCanSubmit(pin) ==
    \A id \in {get_button(pin)[1]} :
        \A events \in {update(btn[id], TRUE, pin_states[pin], now + 1).events} :
            events /= <<>> =>
                ENABLED submit(raise_event_next(begin_raise(id, events, now + 1,
                                                            handlers[id], Len(futures)),
                                                handlers[id]))

\* C27: recognition never waits for handlers.  An edge callback that has the
\* condition can submit the handlers of the events of its update, in each
\* turn of its submission, whatever the futures are, and the first coroutine
\* not yet started can start while awaitables of earlier handlers are
\* pending.
C27_RecognitionNeverWaits ==
    /\ \A pin \in Pins :
          (/\ status = "running" /\ now < MaxTime
           /\ cond_owner = "none"
           /\ Len(get_button(pin)) = 1) => EdgeCanSubmit(pin)
    /\ cond_owner = "edge" => ENABLED on_gpio_edge_raising
    /\ \A i \in DOMAIN futures :
          (/\ loop = "running"
           /\ futures[i].state = "pending"
           /\ \A j \in 1..(i - 1) : futures[j].state /= "pending")
          => ENABLED call_event_handler(i, "returned")

\* The edge callback of the release has returned and its handler has started
\* while the awaitable of the handler of the press is pending.
C27_Witness ==
    /\ Len(futures) = 2
    /\ futures[1].event = "press" /\ futures[1].state = "running"
    /\ futures[2].event = "release" /\ futures[2].state /= "pending"
    /\ cond_owner = "none"

\* The event a comes before the event b in the events of one update.
Before(events, a, b) ==
    \E i, j \in DOMAIN events : i < j /\ events[i] = a /\ events[j] = b

\* The events of an update of button id are in order after what the observer
\* has seen of the button: a click or a double click comes after the release
\* it belongs to, in the same update at the earliest, and a long press comes
\* while the button is pressed, the release yet to come.
ClickAndLongPressInOrder(id) ==
    /\ \A name \in {"click", "double click"} :
          Has(emitted'.events, name) =>
              \/ Before(emitted'.events, "release", name)
              \/ ~Has(emitted'.events, "release") /\ obs[id].n_release >= 1
                 /\ obs[id].last_release /= 0
    /\ Has(emitted'.events, "long press") =>
          btn'[id].pressed /\ ~Has(emitted'.events, "release")

\* C28 as stated: the events of a button are emitted in causal order: a
\* release after the press event of its pressed interval, a click or a double
\* click after its release, a long press before the release of its interval.
C28_CausalOrder ==
    [][\A id \in 1..created :
          emitted' /= emitted /\ emitted'.button = id =>
              /\ Has(emitted'.events, "release") => obs[id].press_run >= 1
              /\ ClickAndLongPressInOrder(id)]_vars

\* C28: the same, except that the pressed interval of a button that
\* make_button sampled as pressed has no press event before its release.
C28_CausalOrderPlusInitial ==
    [][\A id \in 1..created :
          emitted' /= emitted /\ emitted'.button = id =>
              /\ Has(emitted'.events, "release") =>
                    \/ obs[id].press_run >= 1
                    \/ /\ obs[id].init_pressed
                       /\ obs[id].n_press = 0 /\ obs[id].n_release = 0
              /\ ClickAndLongPressInOrder(id)]_vars

\* A press event, then a long press, then the release and its click in one
\* update.
C28_Witness ==
    /\ created = 1
    /\ obs[1].n_press >= 1 /\ obs[1].lp_count = 1
    /\ Before(emitted.events, "release", "click") /\ emitted.button = 1

\* C29: two presses and releases with the second release at most
\* double_click_timeout after the first press, the timeout itself included,
\* are detected as a double click.
C29_DoubleClickAtTimeout ==
    \A id \in 1..created :
        (/\ Len(obs[id].press_hist) = 2
         /\ obs[id].last_release /= 0
         /\ obs[id].last_release - obs[id].press_hist[1] <= btn[id].double_click_timeout
         /\ ~obs[id].prev_consumed)
        => obs[id].dc_at_last_release

\* C30: button updates are serialized by the condition: no update, that of
\* make_button included, runs while another thread holds the condition, and
\* the scheduled-updates thread reads the buttons' scheduled_update_time with
\* the condition held.
C30_UpdatesUnderMutex ==
    [][/\ emitted' /= emitted /\ emitted'.src = "make_button" => cond_owner = "none"
       /\ emitted' /= emitted /\ emitted'.src = "edge" => cond_owner = "none"
       /\ emitted' /= emitted /\ emitted'.src = "scheduled" => cond_owner = "worker"
       /\ wpc = "remaining" /\ wpc' /= "remaining" => cond_owner = "worker"]_vars

\* C31: the handler lists of a button are guarded by the controller mutex: no
\* add_on_X or remove_on_X of a button changes its lists while an update of
\* the button is reading them to submit handlers.
C31_HandlerListsGuarded ==
    [][\A id \in 1..created :
          handlers'[id] /= handlers[id] => raising.button /= id]_vars

\* C32: once the status is Stopping or Stopped, the scheduled-updates thread
\* eventually leaves its loop and ends, wherever it was when stop changed the
\* status and notified the condition.  (A thread in time.sleep is left out:
\* the clock is not followed once the controller stops.)
C32_WorkerEnds ==
    (status \in {"stopping", "stopped"} /\ wpc /= "sleep")
        ~> (wpc \in {"done", "dead", "sleep"} \/ ClockEnded)

\* C33: the scheduled-updates thread is notified of every new or earlier
\* deadline and recomputes its wait: once the scheduled time of a registered
\* button has passed, the thread is neither waiting on the condition without
\* a notification nor asleep until a later time.
C33_WorkerNotified ==
    \A i \in DOMAIN buttons :
        (/\ status = "running"
         /\ btn[buttons[i]].scheduled_update_time /= 0
         /\ btn[buttons[i]].scheduled_update_time < now)
        => /\ ~(wpc = "waiting" /\ ~notified)
           /\ ~(wpc = "sleep" /\ wake_at > btn[buttons[i]].scheduled_update_time)

\* C34: while Running an edge callback for a pin updates the button that has
\* the pin, once, before it returns, and no other button; no edge callback
\* updates a button for a pin that no registered button has (its only step
\* is then on_gpio_edge_ignored, which changes nothing).
C34_EdgeUpdatesOwnerOnly ==
    [][\A pin \in CtlPins :
          (status = "running" /\ on_gpio_edge(pin)) =>
              /\ pin \in RegisteredPins
              /\ \A id \in 1..created :
                    (btn[id].pin_id /= pin \/ ~Registered(id)) => btn'[id] = btn[id]
              /\ emitted' /= emitted
              /\ emitted'.src = "edge" /\ emitted'.time = now + 1
              /\ now' = now + 1
              /\ Registered(emitted'.button)
              /\ btn[emitted'.button].pin_id = pin]_vars

\* Two registered buttons with their pins high, and the edge callback of the
\* second button's pin has updated the second button only.
C34_Witness ==
    /\ Len(buttons) = 2 /\ created = 2
    /\ pin_states[btn[1].pin_id] /\ pin_states[btn[2].pin_id]
    /\ btn[1].input_type = "PRESSED_WHEN_ON" /\ btn[2].input_type = "PRESSED_WHEN_ON"
    /\ emitted.src = "edge" /\ emitted.button = 2 /\ emitted.events = <<"press">>
    /\ btn[2].pressed /\ ~btn[1].pressed /\ btn[1].press_times = <<>>

\* The button with the history that a recognizer with a ring of two press
\* times and one release time keeps: the last two press times and the last
\* release time.
Ring(b) ==
    [b EXCEPT !.press_times = LastTwo(@),
              !.release_times = IF @ = <<>> THEN <<>> ELSE <<Last(@)>>]

\* C35: the recognizer with the full press_times and release_times and the
\* one that keeps the last two press times and the last release time are
\* equivalent: from every reachable button and for every level, the update of
\* the one and of the other emit the same events, request the same scheduled
\* time and leave buttons that are again the same but for the older history.
C35_RingSuffices ==
    \A id \in 1..created :
        \A pin_input \in BOOLEAN :
            \A full \in {update(btn[id], TRUE, pin_input, now + 1)} :
                \A short \in {update(Ring(btn[id]), TRUE, pin_input, now + 1)} :
                    /\ full.events = short.events
                    /\ full.index_error = short.index_error
                    /\ full.button.scheduled_update_time = short.button.scheduled_update_time
                    /\ Ring(full.button) = Ring(short.button)

\* A button released with three press times in its history.
C35_Witness ==
    /\ created = 1
    /\ Len(btn[1].press_times) >= 3
    /\ emitted.button = 1 /\ Has(emitted.events, "release")

\* C36: no completed press and release is dropped.  A click accounts for one
\* press and a double click for two, and each clears the history of the
\* button: so the update that emits a click finds one press recorded, and the
\* update that emits a double click finds two.  (Buttons that make_button
\* sampled as pressed are left out: their first press has no press event.)
C36_NoPairDropped ==
    [][\A id \in 1..created :
          (emitted' /= emitted /\ emitted'.button = id /\ ~obs[id].init_pressed) =>
              /\ Has(emitted'.events, "click") => Len(btn[id].press_times) = 1
              /\ Has(emitted'.events, "double click") => Len(btn[id].press_times) = 2]_vars

\* C37: stop called on the thread of the event loop, by the signal handler or
\* by a handler, returns in the end and the controller gets to STOPPED, also
\* with a handler in flight.
C37_LoopThreadStopReturns ==
    (spc = "notify" /\ sthread = "loop")
        ~> ((spc = "returned" /\ status = "stopped") \/ ClockEnded)

\* C38: the threads never deadlock on _status_lock and the condition.  The
\* thread that holds the condition (the scheduled-updates thread, or an edge
\* callback submitting handlers) always has a next step, which needs no
\* lock; an edge callback that holds _status_lock and asks for the condition
\* is never the holder of the condition itself, the holder is then the
\* scheduled-updates thread or nobody, and the callback goes on as soon as
\* the condition is free.
C38_NoLockDeadlock ==
    /\ cond_owner = "edge" => ENABLED on_gpio_edge_raising
    /\ (cond_owner = "worker" /\ ~ClockEnded)
          => ENABLED (scheduled_updates_thread_main \/ worker_raising)
    /\ edge_in /= <<>> => cond_owner \in {"none", "worker"}
    /\ (edge_in /= <<>> /\ cond_owner = "none" /\ now < MaxTime)
          => ENABLED on_gpio_edge_update

\* An edge callback has _status_lock and waits for the condition, which the
\* scheduled-updates thread holds in the middle of an update.
C38_Witness ==
    /\ edge_in /= <<>>
    /\ cond_owner = "worker"
    /\ wpc = "updating"
    /\ status = "running"
    /\ loop = "running"

\* C39: a button that is pressed has a press time, so that the read of
\* press_times[-1] in the long-press step of update never fails: no update
\* ends in an IndexError and the scheduled-updates thread never dies of one.
C39_PressedHasPressTime ==
    /\ \A id \in 1..created : btn[id].pressed => btn[id].press_times /= <<>>
    /\ ~emitted.index_error
    /\ wpc /= "dead"

\* A click or a double click has cleared the history of the button, the
\* button has been pressed again and an update has read the time of that
\* press and raised its long press.
C39_Witness ==
    /\ created = 1
    /\ btn[1].pressed
    /\ obs[1].n_press >= 2
    /\ Len(btn[1].press_times) = 1
    /\ emitted.button = 1
    /\ Has(emitted.events, "long press")

\* The button b has a scheduled update, not later than the time given.
ScheduledBy(b, deadline) ==
    b.scheduled_update_time /= 0 /\ b.scheduled_update_time <= deadline

\* C40: after every update of a button made while RUNNING, a button that is
\* pressed and not long-pressed has a scheduled update no later than its last
\* press plus long_press_timeout, and a button whose last release is later
\* than its last press, its click not raised, has one no later than its last
\* press plus double_click_timeout.
C40_PendingGestureScheduled ==
    [][\A id \in 1..created' :
          (emitted' /= emitted /\ emitted'.button = id) =>
              /\ (btn'[id].pressed /\ ~btn'[id].long_pressed)
                    => ScheduledBy(btn'[id], Last(btn'[id].press_times)
                                             + btn'[id].long_press_timeout)
              /\ click_pending(btn'[id].press_times, btn'[id].release_times)
                    => ScheduledBy(btn'[id], Last(btn'[id].press_times)
                                             + btn'[id].double_click_timeout)]_vars

\* A release has just been recorded while the update scheduled for the long
\* press of its press was still to come: the update scheduled is now the
\* earlier one, of the click.
C40_Witness ==
    /\ created = 1
    /\ emitted.button = 1
    /\ Has(emitted.events, "release")
    /\ btn[1].long_press_timeout > btn[1].double_click_timeout
    /\ click_pending(btn[1].press_times, btn[1].release_times)
    /\ emitted.time < Last(btn[1].press_times) + btn[1].double_click_timeout
    /\ btn[1].scheduled_update_time
          = Last(btn[1].press_times) + btn[1].double_click_timeout

====
